---- MODULE Spec2Model ----
(***************************************************************************)
(* A model of msr_parser.parse_msr_files: the ingestion of PayPal monthly  *)
(* sales reports into a subscription table and a month table.              *)
(*                                                                         *)
(* Python strings that the code indexes, slices, concatenates or sorts     *)
(* (file names, e-mail addresses, reference ids, gross cells) are tuples   *)
(* of one-character strings.  Strings that are only compared (currency,    *)
(* description, name, status) are TLA+ strings.  Both dicts of the code    *)
(* are insertion-ordered: each is a sequence of records whose key is the   *)
(* record's id field.                                                      *)
(***************************************************************************)
EXTENDS Integers, Sequences, FiniteSets, TLC

\* ------------------------------------------------------------------ bounds
\* The number of report files in a folder that is not empty.
NumFiles == 3
\* The most CSV rows read over the whole run.
MaxRows == 3

\* --------------------------------------------------------- program constants
\* Default of the parameter filename_year: infile[-10:-6].
FilenameYearFrom == 10
FilenameYearTo == 6
\* Default of the parameter filename_month: infile[-6:-4].
FilenameMonthFrom == 6
FilenameMonthTo == 4
\* len(row['Reference Txn ID']) > 3
RefIdMinLen == 3
\* response.status_code == 200
StatusOK == 200
\* growth = 100, and the factor 100.0 of growth and churn
Percent == 100

\* ------------------------------------------------------------ Python values
\* pandas reads an empty cell as NaN, which is no str.
NaN == << >>
\* subscription = None
None == << >>
\* The default reporting_currency=False of the caller.
False == "False"
\* What strptime raises on a string that does not fit the format.
ValueError == -1

isinstance_str(x) == x # NaN

\* str(n) for n >= 0.
Digit(d) == <<"0", "1", "2", "3", "4", "5", "6", "7", "8", "9">>[d + 1]

RECURSIVE str(_)
str(n) == IF n < 10 THEN <<Digit(n)>> ELSE str(n \div 10) \o <<Digit(n % 10)>>

\* The value of a digit character.
DigitValue(c) == CHOOSE d \in 0..9 : Digit(d) = c

\* s.replace(old, '') for a one-character old.
RECURSIVE replace(_, _)
replace(s, old) ==
    IF s = << >> THEN << >>
    ELSE IF Head(s) = old THEN replace(Tail(s), old)
    ELSE <<Head(s)>> \o replace(Tail(s), old)

\* float(s) for a string of digits.
RECURSIVE float(_)
float(s) ==
    IF s = << >> THEN 0
    ELSE 10 * float(SubSeq(s, 1, Len(s) - 1)) + DigitValue(s[Len(s)])

\* s[-from : -to], Python's slice with negative indices, for from >= to >= 0.
Slice(s, from, to) ==
    LET lo == IF Len(s) - from < 0 THEN 0 ELSE Len(s) - from
        hi == IF Len(s) - to < 0 THEN 0 ELSE Len(s) - to
    IN  SubSeq(s, lo + 1, hi)

\* ord(c) for the characters of the file names.
ord(c) ==
    CASE c = "-" -> 45
      [] c = "." -> 46
      [] c \in {"0", "1", "2", "3", "4", "5", "6", "7", "8", "9"} -> 48 + DigitValue(c)
      [] c = "B" -> 66
      [] c = "C" -> 67
      [] c = "M" -> 77
      [] c = "R" -> 82
      [] c = "S" -> 83
      [] c = "V" -> 86

\* s < t for Python strings: lexicographic by code point.
RECURSIVE StrLess(_, _)
StrLess(s, t) ==
    IF t = << >> THEN FALSE
    ELSE IF s = << >> THEN TRUE
    ELSE IF Head(s) # Head(t) THEN ord(Head(s)) < ord(Head(t))
    ELSE StrLess(Tail(s), Tail(t))

\* list.sort() of a set of distinct strings.
RECURSIVE sort(_)
sort(S) ==
    IF S = {} THEN << >>
    ELSE LET m == CHOOSE x \in S : \A y \in S \ {x} : StrLess(x, y)
         IN  <<m>> \o sort(S \ {m})

\* ------------------------------------------------------------------- inputs
\* File names that match MSR-*.CSV: MSR-201901.CSV, MSR-201902.CSV,
\* MSR-201903.CSV and MSR-B201901.CSV.
January == <<"M", "S", "R", "-", "2", "0", "1", "9", "0", "1", ".", "C", "S", "V">>
February == <<"M", "S", "R", "-", "2", "0", "1", "9", "0", "2", ".", "C", "S", "V">>
March == <<"M", "S", "R", "-", "2", "0", "1", "9", "0", "3", ".", "C", "S", "V">>
Backup == <<"M", "S", "R", "-", "B", "2", "0", "1", "9", "0", "1", ".", "C", "S", "V">>
FileNames == { January, February, March, Backup }

\* What glob finds: nothing, or NumFiles files, the reports of January and
\* February among them.
Folders ==
    { S \in SUBSET FileNames :
        \/ S = {}
        \/ Cardinality(S) = NumFiles /\ January \in S /\ February \in S }

\* The column 'From Email Address'.
Emails == { <<"a">>, <<"b">> }

\* The column 'Reference Txn ID': empty, an id of PayPal's shape (I-AB), and
\* a string of another shape (a_1).
RefIds == { NaN, <<"I", "-", "A", "B">>, <<"a", "_", "1">> }

\* The column 'Description'.
Descriptions == { "Subscription Payment", "Refund" }

\* The column 'Gross': pandas gives a number, or a str when the column holds
\* thousands separators.
NumCell(n) == [isStr |-> FALSE, num |-> n, chars |-> << >>]
StrCell(s) == [isStr |-> TRUE, num |-> 0, chars |-> s]

\* The column 'Date': the shape of the string (which of the two regular
\* expressions it matches, or that it has the form YYYY-MM-DD, or none of
\* these), whether it names a calendar date with nothing after it, and the
\* date it names.
DateCell(shape, valid, day) == [shape |-> shape, valid |-> valid, day |-> day]

\* The columns 'Date', 'Currency', 'Gross' and 'Name' of the rows: 01/01/2019
\* USD 4 Ann, 2019-01-02 EUR "1,000" Bob, and two rows whose date strptime
\* refuses, 02-30-2019 and an empty cell.
Payment(d, currency, amount, name) ==
    [ Date |-> d, Currency |-> currency, Gross |-> amount, Name |-> name ]
Payments ==
    { Payment(DateCell("%m/%d/%Y", TRUE, 1), "USD", NumCell(4), "Ann"),
      Payment(DateCell("%Y-%m-%d", TRUE, 2), "EUR", StrCell(<<"1", ",", "0", "0", "0">>), "Bob"),
      Payment(DateCell("%m-%d-%Y", FALSE, 1), "USD", NumCell(4), "Ann"),
      Payment(DateCell("other", FALSE, 1), "EUR", NumCell(4), "Bob") }

\* A row of a report.
Row(description, p, email, ref) ==
    [ Description |-> description, Date |-> p.Date, Currency |-> p.Currency,
      Gross |-> p.Gross, Name |-> p.Name, FromEmailAddress |-> email,
      ReferenceTxnID |-> ref ]

\* The rows of a report that are subscription payments: every payment from a
\* without a reference id, the first from a with a reference id of PayPal's
\* shape and from b with the other reference id, the second from b with a
\* reference id of PayPal's shape.
PaymentRows ==
    { Row("Subscription Payment", p, <<"a">>, NaN) : p \in Payments }
    \cup
    { Row("Subscription Payment", p, <<"a">>, <<"I", "-", "A", "B">>) :
        p \in { q \in Payments : q.Date.valid /\ q.Currency = "USD" } }
    \cup
    { Row("Subscription Payment", p, <<"b">>, <<"a", "_", "1">>) :
        p \in { q \in Payments : q.Date.valid /\ q.Currency = "USD" } }
    \cup
    { Row("Subscription Payment", p, <<"b">>, <<"I", "-", "A", "B">>) :
        p \in { q \in Payments : q.Date.valid /\ q.Currency = "EUR" } }

\* The other rows of a report.
OtherRows ==
    { Row("Refund", p, <<"a">>, <<"I", "-", "A", "B">>) :
        p \in { q \in Payments : q.Currency = "EUR" } }

Rows == PaymentRows \cup OtherRows

\* The answers of the exchange-rate service: 200 with a rate, or an error
\* status without one.
Rates == { 2 }
Responses ==
    [ status_code : {StatusOK}, rate : Rates ] \cup [ status_code : {500}, rate : {0} ]

\* The parameters reporting_currency and print_stats of the caller: the
\* defaults, the defaults without the statistics, and a reporting currency.
Call(reporting, stats) == [ reporting_currency |-> reporting, print_stats |-> stats ]
Calls == { Call(False, TRUE), Call(False, FALSE), Call("USD", TRUE) }

\* --------------------------------------------------- the code's computations
\* datetime.datetime.strptime(cell, format).date()
strptime(cell, format) ==
    IF cell.shape = format /\ cell.valid THEN cell.day ELSE ValueError

\* ParseDate with a fallback in place of the error of strptime.
ParseDate_Lenient(cell) ==
    IF cell.valid /\ cell.shape # "other" THEN cell.day ELSE 1

\* Lines 112-118: the date of a row, or ValueError.
ParseDate(cell) ==
    IF cell.shape = "%m/%d/%Y" THEN strptime(cell, "%m/%d/%Y")
    ELSE IF cell.shape = "%m-%d-%Y" THEN strptime(cell, "%m-%d-%Y")
    ELSE strptime(cell, "%Y-%m-%d")

\* Lines 119-121: the amount of a row.
ParseGross(cell) ==
    IF cell.isStr THEN float(replace(cell.chars, ",")) ELSE cell.num

\* Convert with the rate applied the other way round.
Convert_Multiplied(amount, currency, reporting, response) ==
    IF reporting = False THEN amount
    ELSE IF currency # reporting /\ response.status_code = StatusOK
         THEN amount * response.rate
    ELSE amount

\* Lines 124-133: the amount in the reporting currency.  The amounts and rates
\* of the model divide without remainder.
Convert(amount, currency, reporting, response) ==
    IF reporting = False THEN amount
    ELSE IF currency # reporting /\ response.status_code = StatusOK
         THEN amount \div response.rate
    ELSE amount

\* Lines 124-126: the reporting currency after a row.
FixCurrency(reporting, currency) ==
    IF reporting = False THEN currency ELSE reporting

\* Line 127: whether the row asks the exchange-rate service.
NeedsLookup(reporting, currency) ==
    reporting # False /\ currency # reporting

\* Matches without the test of line 138.
Matches_AnyStatus(r, prior_subscription) ==
    \/ isinstance_str(r.ReferenceTxnID) /\ r.ReferenceTxnID = prior_subscription.id
    \/ r.FromEmailAddress = prior_subscription.email

\* Lines 138-145: whether the loop stops at this record.
Matches(r, prior_subscription) ==
    /\ prior_subscription.status = "tentative"
    /\ \/ isinstance_str(r.ReferenceTxnID) /\ r.ReferenceTxnID = prior_subscription.id
       \/ r.FromEmailAddress = prior_subscription.email

\* FindMatch with the last record that passes in place of the first.
FindMatch_Last(r, subs) ==
    IF \E i \in 1..Len(subs) : Matches(r, subs[i])
    THEN CHOOSE i \in 1..Len(subs) :
            /\ Matches(r, subs[i])
            /\ \A j \in (i + 1)..Len(subs) : ~Matches(r, subs[j])
    ELSE 0

\* Lines 136-145: the position in the table of the record the row is matched
\* to, the first in iteration order, or 0 for None.
FindMatch(r, subs) ==
    IF \E i \in 1..Len(subs) : Matches(r, subs[i])
    THEN CHOOSE i \in 1..Len(subs) :
            /\ Matches(r, subs[i])
            /\ \A j \in 1..(i - 1) : ~Matches(r, subs[j])
    ELSE 0

\* key in dict
HasKey(dict, key) == \E i \in 1..Len(dict) : dict[i].id = key

\* dict[key], for a key of the dict
Lookup(dict, key) == dict[CHOOSE i \in 1..Len(dict) : dict[i].id = key]

\* dict[key] = record: a new key is added last, the value of an old key is
\* replaced where it stands.
SetItem(dict, key, record) ==
    IF HasKey(dict, key)
    THEN [i \in 1..Len(dict) |-> IF dict[i].id = key THEN record ELSE dict[i]]
    ELSE Append(dict, record)

\* Lines 154-157: the first id <email>_<n> that is no key of the table.
RECURSIVE SynthesizeId(_, _, _)
SynthesizeId(email, subs, n) ==
    IF HasKey(subs, email \o <<"_">> \o str(n))
    THEN SynthesizeId(email, subs, n + 1)
    ELSE email \o <<"_">> \o str(n)

\* Line 151: the shape of an id of the payment processor.
HasIdShape(ref) ==
    isinstance_str(ref) /\ Len(ref) > RefIdMinLen /\ ref[2] = "-"

\* Lines 150-157: the id of a new subscription.
NewSubscriptionId(r, subs) ==
    IF HasIdShape(r.ReferenceTxnID) THEN r.ReferenceTxnID
    ELSE SynthesizeId(r.FromEmailAddress, subs, 1)

\* Lines 159-171: the record of a new subscription.
NewSubscription(id, r, d, reporting, amount) ==
    [ id |-> id, name |-> r.Name, email |-> r.FromEmailAddress,
      start |-> d, end |-> d, length |-> 1, currency |-> reporting,
      gross |-> amount, original_currency |-> r.Currency,
      original_gross |-> r.Gross, status |-> "active" ]

\* Renew without the assignment of line 180.
Renew_KeepsStatus(sub, d, amount) ==
    [sub EXCEPT !.end = d, !.length = @ + 1, !.gross = @ + amount]

\* Lines 176-180: a renewed subscription.
Renew(sub, d, amount) ==
    [sub EXCEPT !.end = d, !.length = @ + 1, !.gross = @ + amount,
                !.status = "active"]

\* MarkTentative without the test of the status.
MarkTentative_All(subs) ==
    [i \in 1..Len(subs) |-> [subs[i] EXCEPT !.status = "tentative"]]

\* Lines 85-87: every active subscription becomes tentative.
MarkTentative(subs) ==
    [i \in 1..Len(subs) |->
        IF subs[i].status = "active"
        THEN [subs[i] EXCEPT !.status = "tentative"] ELSE subs[i]]

\* CancelTentative with the test for the records that are not canceled yet.
CancelTentative_AlsoActive(subs) ==
    [i \in 1..Len(subs) |->
        IF subs[i].status # "canceled"
        THEN [subs[i] EXCEPT !.status = "canceled"] ELSE subs[i]]

\* Lines 187-189: every subscription still tentative becomes canceled.
CancelTentative(subs) ==
    [i \in 1..Len(subs) |->
        IF subs[i].status = "tentative"
        THEN [subs[i] EXCEPT !.status = "canceled"] ELSE subs[i]]

\* The number of records of a status.
CountStatus(subs, status) ==
    Cardinality({i \in 1..Len(subs) : subs[i].status = status})

\* A float as the fraction num/den, not reduced.
Fraction(num, den) == [num |-> num, den |-> den]

\* Growth with 0 where no subscription was active before.
Growth_DefaultZero(new, prior) ==
    IF prior # 0 THEN Fraction(Percent * new, prior) ELSE Fraction(0, 1)

\* Lines 191-194: growth.
Growth(new, prior) ==
    IF prior # 0 THEN Fraction(Percent * new, prior) ELSE Fraction(Percent, 1)

\* Churn as a share of 1 in place of a share of 100.
Churn_NotPercent(canceled, prior) ==
    IF prior # 0 THEN Fraction(canceled, prior) ELSE Fraction(0, 1)

\* Lines 192-195: churn.
Churn(canceled, prior) ==
    IF prior # 0 THEN Fraction(Percent * canceled, prior) ELSE Fraction(0, 1)

\* Lines 94-95 and 208: the key of a file's month.
Year(infile) == Slice(infile, FilenameYearFrom, FilenameYearTo)
Month(infile) == Slice(infile, FilenameMonthFrom, FilenameMonthTo)
MonthId(infile) == Year(infile) \o <<"-">> \o Month(infile)

\* -------------------------------------------------------------------- state
VARIABLES
    infiles,                \* the sorted list of report files
    print_stats,            \* the parameter print_stats
    reporting_currency,     \* the parameter, rebound by the first payment row
    pc,                     \* "files", "rows", "returned" or "raised"
    file,                   \* the position in infiles of infile; 0 before the loop
    rows_read,              \* the rows read so far, over all files
    subscriptions,          \* the dict subscriptions
    months,                 \* the dict months
    prior_subscriptions,
    active_subscriptions,
    new_subscriptions,
    monthly_revenue,
    canceled_subscription,
    row,                    \* the row of the current iteration
    date,                   \* its parsed date
    gross,                  \* its amount, converted
    response,               \* the last answer of the exchange-rate service
    subscription,           \* the id of the record matched to the row, or None
    result                  \* the list returned to the caller, or None

vars ==
    << infiles, print_stats, reporting_currency, pc, file, rows_read,
       subscriptions, months, prior_subscriptions, active_subscriptions,
       new_subscriptions, monthly_revenue, canceled_subscription, row, date,
       gross, response, subscription, result >>

\* The locals of the file pass.
counters ==
    << prior_subscriptions, active_subscriptions, new_subscriptions,
       monthly_revenue, canceled_subscription >>

\* The locals of the row loop.
locals == << row, date, gross, response, subscription >>

\* Lines 85 and 187: the loops over subscriptions.items() bind subscription
\* to each record in turn, and leave it bound to the last one.
AfterItems(subs, bound) == IF subs = << >> THEN bound ELSE subs[Len(subs)].id

\* A name that is not bound yet.
Unbound == [ Description |-> "", Date |-> DateCell("other", FALSE, 0),
             Currency |-> "", Gross |-> NumCell(0), FromEmailAddress |-> << >>,
             Name |-> "", ReferenceTxnID |-> NaN ]
NoResponse == [ status_code |-> 0, rate |-> 0 ]

infile == infiles[file]

\* Lines 74-78: the state when the loop over the files begins.
Init ==
    /\ infiles \in { sort(S) : S \in Folders }
    /\ \E call \in Calls :
          /\ print_stats = call.print_stats
          /\ reporting_currency = call.reporting_currency
    /\ pc = "files"
    /\ file = 0
    /\ rows_read = 0
    /\ subscriptions = << >>
    /\ months = << >>
    /\ prior_subscriptions = 0
    /\ active_subscriptions = 0
    /\ new_subscriptions = 0
    /\ monthly_revenue = 0
    /\ canceled_subscription = 0
    /\ row = Unbound
    /\ date = 0
    /\ gross = 0
    /\ response = NoResponse
    /\ subscription = None
    /\ result = None

\* Lines 83-96: the next file is opened.
BeginFile ==
    /\ pc = "files"
    /\ file < Len(infiles)
    /\ file' = file + 1
    /\ prior_subscriptions' = CountStatus(subscriptions, "active")
    /\ subscriptions' = MarkTentative(subscriptions)
    /\ active_subscriptions' = 0
    /\ new_subscriptions' = 0
    /\ monthly_revenue' = 0
    /\ subscription' = AfterItems(subscriptions, subscription)
    /\ pc' = "rows"
    /\ UNCHANGED << infiles, print_stats, reporting_currency, rows_read, months,
                    canceled_subscription, row, date, gross, response, result >>

\* IsSubscriptionPayment without the test of the Description.
IsSubscriptionPayment_Any(r) == r.Description # ""

\* Line 108: whether the row is read as a payment of a subscription.
IsSubscriptionPayment(r) == r.Description = "Subscription Payment"

\* Lines 106-109: a row that is no subscription payment.
SkipRow(r) ==
    /\ pc = "rows"
    /\ rows_read < MaxRows
    /\ ~IsSubscriptionPayment(r)
    /\ row' = r
    /\ rows_read' = rows_read + 1
    /\ UNCHANGED << infiles, print_stats, reporting_currency, pc, file,
                    subscriptions, months, counters, date, gross, response,
                    subscription, result >>

\* Lines 106-118: a payment row whose date strptime refuses.
RowRaises(r) ==
    /\ pc = "rows"
    /\ rows_read < MaxRows
    /\ IsSubscriptionPayment(r)
    /\ ParseDate(r.Date) = ValueError
    /\ row' = r
    /\ rows_read' = rows_read + 1
    /\ pc' = "raised"
    /\ UNCHANGED << infiles, print_stats, reporting_currency, file,
                    subscriptions, months, counters, date, gross, response,
                    subscription, result >>

\* Lines 106-184: a payment row; answer is what the exchange-rate service
\* returns if the row asks it.
PaymentRow(r, answer) ==
    /\ pc = "rows"
    /\ rows_read < MaxRows
    /\ IsSubscriptionPayment(r)
    /\ ParseDate(r.Date) # ValueError
    /\ LET d == ParseDate(r.Date)
           amount == Convert(ParseGross(r.Gross), r.Currency, reporting_currency, answer)
           reporting == FixCurrency(reporting_currency, r.Currency)
           m == FindMatch(r, subscriptions)
           id == NewSubscriptionId(r, subscriptions)
       IN  /\ IF NeedsLookup(reporting_currency, r.Currency)
              THEN response' = answer
              ELSE answer = response /\ response' = response
           /\ row' = r
           /\ date' = d
           /\ gross' = amount
           /\ reporting_currency' = reporting
           /\ IF m = 0
              THEN /\ subscriptions' =
                        SetItem(subscriptions, id, NewSubscription(id, r, d, reporting, amount))
                   /\ new_subscriptions' = new_subscriptions + 1
                   /\ subscription' = None
              ELSE /\ subscriptions' =
                        [subscriptions EXCEPT ![m] = Renew(subscriptions[m], d, amount)]
                   /\ new_subscriptions' = new_subscriptions
                   /\ subscription' = subscriptions[m].id
           /\ active_subscriptions' = active_subscriptions + 1
           /\ monthly_revenue' = monthly_revenue + amount
    /\ rows_read' = rows_read + 1
    /\ UNCHANGED << infiles, print_stats, pc, file, months, prior_subscriptions,
                    canceled_subscription, result >>

\* Lines 209-220: the summary of the file.
MonthSummary(canceled) ==
    [ id |-> MonthId(infile), year |-> Year(infile), month |-> Month(infile),
      active_subscriptions |-> active_subscriptions,
      new_subscriptions |-> new_subscriptions,
      canceled_subscription |-> canceled,
      growth |-> Growth(new_subscriptions, prior_subscriptions),
      churn |-> Churn(canceled, prior_subscriptions),
      revenue |-> monthly_revenue,
      currency |-> reporting_currency ]

\* Line 205: the statistics line concatenates reporting_currency to a str,
\* which raises TypeError while reporting_currency is still False.
StatsLineRaises == print_stats /\ reporting_currency = False

\* Lines 186-220: the rows of the file are exhausted.
EndFile ==
    /\ pc = "rows"
    /\ ~StatsLineRaises
    /\ canceled_subscription' = CountStatus(subscriptions, "tentative")
    /\ subscriptions' = CancelTentative(subscriptions)
    /\ subscription' = AfterItems(subscriptions, subscription)
    /\ months' = SetItem(months, MonthId(infile), MonthSummary(canceled_subscription'))
    /\ pc' = "files"
    /\ UNCHANGED << infiles, print_stats, reporting_currency, file, rows_read,
                    prior_subscriptions, active_subscriptions, new_subscriptions,
                    monthly_revenue, row, date, gross, response, result >>

\* Lines 186-206: the rows of the file are exhausted and the statistics line
\* raises.
EndFileRaises ==
    /\ pc = "rows"
    /\ StatsLineRaises
    /\ canceled_subscription' = CountStatus(subscriptions, "tentative")
    /\ subscriptions' = CancelTentative(subscriptions)
    /\ subscription' = AfterItems(subscriptions, subscription)
    /\ pc' = "raised"
    /\ UNCHANGED << infiles, print_stats, reporting_currency, file, rows_read,
                    months, prior_subscriptions, active_subscriptions,
                    new_subscriptions, monthly_revenue, row, date, gross,
                    response, result >>

\* Lines 222-225: the two tables are returned, their rows in the order of the
\* dicts.
Return ==
    /\ pc = "files"
    /\ file = Len(infiles)
    /\ result' = << subscriptions, months >>
    /\ pc' = "returned"
    /\ UNCHANGED << infiles, print_stats, reporting_currency, file, rows_read,
                    subscriptions, months, counters, locals >>

Next ==
    \/ BeginFile
    \/ \E r \in Rows : SkipRow(r)
    \/ \E r \in Rows : RowRaises(r)
    \/ \E r \in Rows, answer \in Responses \cup {NoResponse} : PaymentRow(r, answer)
    \/ EndFile
    \/ EndFileRaises
    \/ Return

Spec == Init /\ [][Next]_vars

\* ------------------------------------------------------------- the steps
\* A step that reads a row: row' is the row read.
RowStep == rows_read' = rows_read + 1

\* A step that reads a subscription payment and handles it to the end of the
\* loop body.
PaymentStep ==
    RowStep /\ row'.Description = "Subscription Payment" /\ pc' = "rows"

\* A step in which the row read is matched to a record of the table.
MatchStep == PaymentStep /\ subscription' # None

\* A step in which the row read matches no record of the table.
CreateStep == PaymentStep /\ subscription' = None

\* The step that ends the pass over a file.
EndStep == pc = "rows" /\ pc' # "rows" /\ ~RowStep

\* The step that begins the pass over a file.
BeginStep == pc = "files" /\ pc' = "rows"

\* The positions of the table.
Ids == 1..Len(subscriptions)

\* The record stored under an id is the same before and after the step.
Kept(id) ==
    /\ HasKey(subscriptions', id)
    /\ Lookup(subscriptions', id) = Lookup(subscriptions, id)

\* --------------------------------------------------------------- C1
\* C1: a row matched to a subscription of the file before adds 1 to its
\* length and the row's converted amount to its gross, sets its end to the
\* row's date and its status to active, and leaves start, id, name and email;
\* and the record under that id shows these values until the pass ends.  A
\* record that is active with a length above 1 while the rows are read was
\* renewed in this pass.
C1_RenewalShownAtEndOfPass ==
    [][ /\ MatchStep =>
            LET old == Lookup(subscriptions, subscription')
                new == Lookup(subscriptions', subscription')
            IN  /\ old.status = "tentative"
                /\ new = [old EXCEPT !.length = old.length + 1,
                                     !.gross = old.gross + gross',
                                     !.end = date',
                                     !.status = "active"]
        /\ \A i \in Ids :
             ( /\ pc = "rows"
               /\ subscriptions[i].status = "active"
               /\ subscriptions[i].length > 1 ) => Kept(subscriptions[i].id)
      ]_vars

\* --------------------------------------------------------------- C3
\* C3: once the record under an id is canceled, the record under that id stays
\* canceled with the same length, gross, start and end.
C3_CanceledIsTerminal ==
    [][ \A i \in Ids :
          subscriptions[i].status = "canceled" =>
            /\ HasKey(subscriptions', subscriptions[i].id)
            /\ LET new == Lookup(subscriptions', subscriptions[i].id)
               IN  /\ new.status = "canceled"
                   /\ new.length = subscriptions[i].length
                   /\ new.gross = subscriptions[i].gross
                   /\ new.start = subscriptions[i].start
                   /\ new.end = subscriptions[i].end
      ]_vars

\* --------------------------------------------------------------- C4
\* C4: a row whose reference id is the id of a tentative subscription is
\* matched to that subscription, also when another tentative subscription has
\* the row's sender.
C4_ReferenceIdFirst ==
    [][ \A i \in Ids :
          ( /\ PaymentStep
            /\ subscriptions[i].status = "tentative"
            /\ row'.ReferenceTxnID # NaN
            /\ row'.ReferenceTxnID = subscriptions[i].id )
          => subscription' = subscriptions[i].id
      ]_vars

\* --------------------------------------------------------------- C5
\* C5: a row that matches no tentative subscription adds one record to the
\* table, under an id that was no key of it (the reference id if it has the
\* shape, else the first unused <email>_<n>), and replaces no record.
C5_NewRecordReplacesNone ==
    [][ CreateStep =>
          /\ Len(subscriptions') = Len(subscriptions) + 1
          /\ SubSeq(subscriptions', 1, Len(subscriptions)) = subscriptions
          /\ LET new == subscriptions'[Len(subscriptions')]
                 ref == row'.ReferenceTxnID
             IN  /\ ~HasKey(subscriptions, new.id)
                 /\ new.status = "active"
                 /\ IF ref # NaN /\ Len(ref) > 3 /\ ref[2] = "-"
                    THEN new.id = ref
                    ELSE \E n \in 1..(Len(subscriptions) + 1) :
                            /\ new.id = row'.FromEmailAddress \o <<"_">> \o str(n)
                            /\ \A k \in 1..(n - 1) :
                                 HasKey(subscriptions,
                                        row'.FromEmailAddress \o <<"_">> \o str(k))
      ]_vars

\* --------------------------------------------------------------- C2
\* The positions of the records of a status.
WithStatus(subs, status) == { i \in 1..Len(subs) : subs[i].status = status }

\* C2: a subscription that is active when the pass over a file begins and is
\* matched by none of its rows goes active -> tentative -> canceled in that
\* pass and adds exactly 1 to the canceled count of that file: the pass
\* begins by making every active record tentative, a row leaves every
\* tentative record it is not matched to as it is, the end of the pass makes
\* every tentative record canceled and counts exactly these, and this count
\* is the one of the file's summary.  It adds nothing to the count of another
\* file: the count changes in no other step, and a canceled record does not
\* become tentative.
C2_UnpaidIsCanceledAndCountedOnce ==
    [][ /\ \A i \in Ids :
             LET old == subscriptions[i]
                 new == subscriptions'[i]
             IN  /\ (BeginStep /\ old.status = "active") =>
                        new = [old EXCEPT !.status = "tentative"]
                 /\ (RowStep /\ old.status = "tentative"
                             /\ ~(MatchStep /\ subscription' = old.id)) =>
                        new = old
                 /\ (EndStep /\ old.status = "tentative") =>
                        new = [old EXCEPT !.status = "canceled"]
                 /\ (EndStep /\ old.status # "tentative") => new = old
                 /\ old.status = "canceled" => new.status # "tentative"
        /\ EndStep =>
             /\ canceled_subscription' =
                    Cardinality(WithStatus(subscriptions, "tentative"))
             /\ WithStatus(subscriptions', "tentative") = {}
             /\ pc' = "files" =>
                    Lookup(months', MonthId(infile)).canceled_subscription =
                        Cardinality(WithStatus(subscriptions, "tentative"))
        /\ ~EndStep => canceled_subscription' = canceled_subscription
      ]_vars

\* C2, reached: a pass has ended in which one of two subscriptions was paid
\* and the other was canceled and counted.
C2_Witness ==
    /\ pc = "files"
    /\ file >= 2
    /\ canceled_subscription = 1
    /\ Cardinality(WithStatus(subscriptions, "canceled")) = 1
    /\ WithStatus(subscriptions, "active") # {}
    /\ Lookup(months, MonthId(infile)).canceled_subscription = 1

\* --------------------------------------------------------------- C6
\* C6: within the pass over a file a record becomes tentative only in the
\* marking step that begins the pass, and only from active; it leaves
\* tentative only to active, by a row, or to canceled, by the end of the
\* pass; and a record that is active while the rows are read stays active to
\* the end of the pass.
C6_OneTransitionPerPass ==
    [][ \A i \in Ids :
          LET old == subscriptions[i].status
              new == subscriptions'[i].status
          IN  /\ (new = "tentative" /\ old # "tentative") =>
                    (BeginStep /\ old = "active")
              /\ (old = "tentative" /\ new # "tentative") =>
                    \/ MatchStep /\ new = "active"
                    \/ EndStep /\ new = "canceled"
              /\ (pc = "rows" /\ old = "active") => new = "active"
      ]_vars

\* C6, reached: in the pass over a later file one record is back to active
\* and another is still tentative.
C6_Witness ==
    /\ pc = "rows"
    /\ file >= 2
    /\ \E i \in Ids : subscriptions[i].status = "active" /\ subscriptions[i].length = 2
    /\ WithStatus(subscriptions, "tentative") # {}

\* --------------------------------------------------------------- C7
\* C7: the summary of a file at whose begin no subscription was active has
\* growth 100 and churn 0.
C7_GrowthWithoutPrior ==
    [][ (EndStep /\ pc' = "files" /\ prior_subscriptions = 0) =>
          LET summary == Lookup(months', MonthId(infile))
          IN  /\ summary.growth.num = 100 * summary.growth.den
              /\ summary.churn.num = 0
              /\ summary.growth.den # 0
              /\ summary.churn.den # 0
      ]_vars

\* C7, reached: a later file at whose begin every subscription was canceled,
\* and which brought a new one.
C7_Witness ==
    /\ pc = "files"
    /\ file >= 2
    /\ prior_subscriptions = 0
    /\ new_subscriptions >= 1
    /\ WithStatus(subscriptions, "canceled") # {}
    /\ Lookup(months, MonthId(infile)).new_subscriptions >= 1
    /\ Lookup(months, MonthId(infile)).growth.num = 100

\* --------------------------------------------------------------- C8
\* C8: a row whose Description is not "Subscription Payment" changes nothing
\* but the position in the file.
C8_OtherRowsChangeNothing ==
    [][ (RowStep /\ row'.Description # "Subscription Payment") =>
          UNCHANGED << subscriptions, months, counters, reporting_currency,
                       pc, file, date, gross, response, subscription, result >>
      ]_vars

\* C8, reached: such a row has been read in a pass with a tentative
\* subscription of its sender and of its reference id.
C8_Witness ==
    /\ pc = "rows"
    /\ row.Description = "Refund"
    /\ \E i \in Ids :
          /\ subscriptions[i].status = "tentative"
          /\ subscriptions[i].email = row.FromEmailAddress
          /\ subscriptions[i].id = row.ReferenceTxnID

\* --------------------------------------------------------------- C9
\* C9: a subscription payment whose date is of none of the three formats ends
\* the run with an error: the tables and counters stay as they were, the file
\* gets no summary, nothing is returned, and nothing happens afterwards.
C9_BadDateAborts ==
    [][ /\ (RowStep /\ row'.Description = "Subscription Payment"
                    /\ ~row'.Date.valid) =>
              /\ pc' = "raised"
              /\ UNCHANGED << subscriptions, months, counters,
                              reporting_currency, result >>
        /\ pc = "raised" => (result = None /\ UNCHANGED vars)
      ]_vars

\* C9, reached: the run has ended with the error at a row with such a date,
\* after a subscription was recorded.
C9_Witness ==
    /\ pc = "raised"
    /\ row.Description = "Subscription Payment"
    /\ row.Date.shape = "other"
    /\ subscriptions # << >>
    /\ Len(months) < file
    /\ result = None

\* --------------------------------------------------------------- C10
\* The number in the column 'Gross' of the row.
NumericGross(r) ==
    IF r.Gross.isStr THEN float(replace(r.Gross.chars, ",")) ELSE r.Gross.num

\* C10: when a row in another currency than the reporting currency gets an
\* answer other than 200, the run goes on and the row's number itself is
\* added to the gross of its subscription and to the revenue of the month;
\* with 200 it is the number divided by the rate.
C10_AmountAfterLookup ==
    [][ ( /\ RowStep
          /\ row'.Description = "Subscription Payment"
          /\ row'.Date.valid
          /\ reporting_currency # False
          /\ row'.Currency # reporting_currency ) =>
          LET number == NumericGross(row')
              added == IF response'.status_code = 200
                       THEN number \div response'.rate ELSE number
          IN /\ response'.status_code = 200 => added * response'.rate = number
             /\ pc' = "rows"
             /\ monthly_revenue' = monthly_revenue + added
             /\ IF subscription' # None
                THEN Lookup(subscriptions', subscription').gross =
                        Lookup(subscriptions, subscription').gross + added
                ELSE \E i \in 1..Len(subscriptions') :
                        /\ subscriptions'[i].gross = added
                        /\ subscriptions'[i].length = 1
                        /\ subscriptions'[i].original_gross = row'.Gross
                        /\ subscriptions'[i].status = "active"
      ]_vars

\* C10, reached: a row in EUR was added unconverted to a renewed
\* subscription in USD after an answer other than 200.
C10_Witness ==
    /\ pc = "rows"
    /\ row.Description = "Subscription Payment"
    /\ reporting_currency = "USD"
    /\ row.Currency = "EUR"
    /\ response.status_code # 200
    /\ gross = 1000
    /\ subscription # None
    /\ Lookup(subscriptions, subscription).gross = 1004
    /\ monthly_revenue >= 1000

\* --------------------------------------------------------------- C12
\* C12: when several tentative subscriptions have the sender of the row and
\* no tentative subscription has the row's reference id as its id, the row is
\* matched to the first of them in the order of the table: that one is
\* renewed, the others are left as they are (tentative), and the table gets no
\* new record.  A tentative record changes only by a row matched to it, or by
\* the end of the pass, which makes it canceled.
C12_FirstOfSenderWins ==
    [][ /\ \A i \in Ids :
             LET OfSender(k) ==
                     /\ subscriptions[k].status = "tentative"
                     /\ subscriptions[k].email = row'.FromEmailAddress
                 others == { k \in Ids : k # i /\ OfSender(k) }
             IN  ( /\ PaymentStep
                   /\ OfSender(i)
                   /\ \A k \in 1..(i - 1) : ~OfSender(k)
                   /\ others # {}
                   /\ \A k \in Ids :
                        subscriptions[k].status = "tentative" =>
                            subscriptions[k].id # row'.ReferenceTxnID )
                 => /\ subscription' = subscriptions[i].id
                    /\ subscriptions'[i].status = "active"
                    /\ subscriptions'[i].length = subscriptions[i].length + 1
                    /\ subscriptions'[i].end = date'
                    /\ \A k \in others : subscriptions'[k] = subscriptions[k]
                    /\ Len(subscriptions') = Len(subscriptions)
        /\ \A i \in Ids :
             subscriptions[i].status = "tentative" =>
                \/ subscriptions'[i] = subscriptions[i]
                \/ /\ MatchStep
                   /\ subscription' = subscriptions[i].id
                   /\ subscriptions'[i].status = "active"
                \/ /\ EndStep
                   /\ subscriptions'[i] =
                         [subscriptions[i] EXCEPT !.status = "canceled"]
      ]_vars

\* C12, reached: of two subscriptions of the sender of a row without reference
\* id the first is renewed and the second is still tentative.
C12_Witness ==
    /\ pc = "rows"
    /\ file >= 2
    /\ row.Description = "Subscription Payment"
    /\ row.ReferenceTxnID = NaN
    /\ \E i, k \in Ids :
          /\ i < k
          /\ subscriptions[i].email = row.FromEmailAddress
          /\ subscriptions[k].email = row.FromEmailAddress
          /\ subscriptions[i].status = "active"
          /\ subscriptions[i].length = 2
          /\ subscriptions[k].length = 1
          /\ subscriptions[k].status = "tentative"

\* --------------------------------------------------------------- C13
\* C13: the summary of a file at whose begin prior > 0 subscriptions were
\* active has growth = 100 * new / prior and churn = 100 * canceled / prior
\* (compared as fractions), where prior is the number of active records when
\* the pass begins and stays the same through the pass, new starts at 0 and
\* grows by one with each subscription payment that is matched to no record
\* and with no other step, and canceled is the number of records that are
\* tentative when the rows are exhausted.
C13_GrowthAndChurn ==
    [][ /\ BeginStep =>
             /\ prior_subscriptions' =
                    Cardinality(WithStatus(subscriptions, "active"))
             /\ new_subscriptions' = 0
        /\ ~BeginStep => prior_subscriptions' = prior_subscriptions
        /\ CreateStep => new_subscriptions' = new_subscriptions + 1
        /\ (~CreateStep /\ ~BeginStep) => new_subscriptions' = new_subscriptions
        /\ (EndStep /\ pc' = "files" /\ prior_subscriptions > 0) =>
             LET summary == Lookup(months', MonthId(infile))
                 canceled == Cardinality(WithStatus(subscriptions, "tentative"))
             IN  /\ summary.growth.den > 0
                 /\ summary.churn.den > 0
                 /\ summary.growth.num * prior_subscriptions =
                        100 * new_subscriptions * summary.growth.den
                 /\ summary.churn.num * prior_subscriptions =
                        100 * canceled * summary.churn.den
                 /\ summary.new_subscriptions = new_subscriptions
                 /\ summary.canceled_subscription = canceled
      ]_vars

\* C13, reached: the summary of a file at whose begin two subscriptions were
\* active, with one new subscription (growth 100/2) and a canceled one.
C13_Witness ==
    /\ pc = "files"
    /\ file >= 2
    /\ prior_subscriptions = 2
    /\ new_subscriptions = 1
    /\ canceled_subscription >= 1
    /\ LET summary == Lookup(months, MonthId(infile))
       IN  /\ summary.growth = Fraction(100, 2)
           /\ summary.churn.num = 100 * summary.canceled_subscription
           /\ summary.churn.den = 2

\* --------------------------------------------------------------- C14
\* C14: a reporting currency that is set never changes; one that the caller
\* left open is set by a subscription payment, to the currency of that row;
\* and once it is set, every record of the subscription table and every
\* summary of the months table, also those of the files before, carries it.
C14_OneReportingCurrency ==
    [][ /\ reporting_currency # False =>
             reporting_currency' = reporting_currency
        /\ (reporting_currency = False /\ reporting_currency' # False) =>
             /\ PaymentStep
             /\ reporting_currency' = row'.Currency
        /\ reporting_currency' # False =>
             /\ \A i \in 1..Len(subscriptions') :
                   subscriptions'[i].currency = reporting_currency'
             /\ \A i \in 1..Len(months') :
                   months'[i].currency = reporting_currency'
      ]_vars

\* --------------------------------------------------------------- C15
\* C15: between the passes the months table holds one summary for each file
\* read so far, in the order of the sorted file list, each under the
\* year-month sliced from the name of its file; and the months table returned
\* holds one for each file of the list.
C15_OneSummaryPerFile ==
    /\ pc \in {"files", "returned"} =>
          /\ Len(months) = file
          /\ \A i \in 1..Len(months) : months[i].id = MonthId(infiles[i])
    /\ pc = "returned" =>
          /\ Len(result[2]) = Len(infiles)
          /\ \A i \in 1..Len(result[2]) : result[2][i].id = MonthId(infiles[i])

\* --------------------------------------------------------------- C16
\* C16: while the rows of a file are read, the subscriptions that were active
\* when the pass began are the rows matched so far (active - new) and the
\* records still tentative; when the pass has ended they are the rows matched
\* and the canceled count, so the canceled count is at most the prior count,
\* and the churn of the file's summary, computed from this count, is at most
\* 100.
C16_Conservation ==
    /\ pc = "rows" =>
          prior_subscriptions =
              (active_subscriptions - new_subscriptions)
              + Cardinality(WithStatus(subscriptions, "tentative"))
    /\ (pc \in {"files", "returned"} /\ file >= 1) =>
          LET summary == Lookup(months, MonthId(infile))
          IN  /\ prior_subscriptions =
                    (active_subscriptions - new_subscriptions)
                    + canceled_subscription
              /\ active_subscriptions >= new_subscriptions
              /\ canceled_subscription <= prior_subscriptions
              /\ summary.active_subscriptions = active_subscriptions
              /\ summary.new_subscriptions = new_subscriptions
              /\ summary.canceled_subscription = canceled_subscription
              /\ summary.churn.den > 0
              /\ summary.churn.num <= 100 * summary.churn.den

\* C16, reached: of two subscriptions active when the pass began one was
\* renewed and one was canceled.
C16_Witness ==
    /\ pc = "files"
    /\ file >= 2
    /\ prior_subscriptions = 2
    /\ active_subscriptions = 1
    /\ new_subscriptions = 0
    /\ canceled_subscription = 1
    /\ Lookup(months, MonthId(infile)).churn = Fraction(100, 2)

\* --------------------------------------------------------------- C17
\* C17: when the pass over a file has ended, no record is tentative, and the
\* number of active records is the count active_subscriptions, which is the
\* one of the file's summary; and the pass over the next file begins with
\* this number as its prior count.
C17_ActiveCountIsActiveRecords ==
    /\ (pc = "files" /\ file >= 1) =>
          /\ WithStatus(subscriptions, "tentative") = {}
          /\ Cardinality(WithStatus(subscriptions, "active")) = active_subscriptions
          /\ Lookup(months, MonthId(infile)).active_subscriptions =
                active_subscriptions
    /\ (pc = "rows" /\ file >= 2) =>
          prior_subscriptions =
              Lookup(months, MonthId(infiles[file - 1])).active_subscriptions

\* --------------------------------------------------------------- C18
\* C18: a record takes at most one payment of a file.  A row is matched only
\* to a record that is tentative, so to none that was created or renewed
\* earlier in the pass; a payment that no tentative record matches, also one
\* from the sender or with the id of such a record, is stored as a record of
\* its own with length 1.  The length of a record that is active while the
\* rows are read does not grow; a length grows only by 1 and only by the row
\* matched to the record; a record new to the table has length 1; and every
\* length is at least 1 and at most the number of files opened so far.
C18_OnePaymentPerFile ==
    [][ /\ MatchStep =>
             Lookup(subscriptions, subscription').status = "tentative"
        /\ ( /\ PaymentStep
              /\ \A k \in Ids :
                    subscriptions[k].status = "tentative" =>
                       /\ subscriptions[k].id # row'.ReferenceTxnID
                       /\ subscriptions[k].email # row'.FromEmailAddress )
            => /\ CreateStep
               /\ \E k \in 1..Len(subscriptions') :
                     /\ subscriptions'[k].length = 1
                     /\ subscriptions'[k].status = "active"
                     /\ subscriptions'[k].start = date'
                     /\ subscriptions'[k].email = row'.FromEmailAddress
                     /\ \A j \in Ids : j # k => subscriptions'[j] = subscriptions[j]
        /\ \A i \in Ids :
             LET old == subscriptions[i]
                 new == subscriptions'[i]
             IN  /\ (pc = "rows" /\ old.status = "active") =>
                        new.length <= old.length
                 /\ new.length > old.length =>
                        /\ MatchStep
                        /\ subscription' = old.id
                        /\ old.status = "tentative"
                        /\ new.length = old.length + 1
                        /\ new.status = "active"
        /\ \A i \in 1..Len(subscriptions') :
             /\ subscriptions'[i].length >= 1
             /\ subscriptions'[i].length <= file'
             /\ i > Len(subscriptions) => subscriptions'[i].length = 1
      ]_vars

\* C18, reached: after a row renewed the subscription of its sender, a second
\* row of the same sender in the same file was stored as a subscription of
\* its own.
C18_Witness ==
    /\ pc = "rows"
    /\ file >= 2
    /\ row.Description = "Subscription Payment"
    /\ subscription = None
    /\ \E i, k \in Ids :
          /\ i # k
          /\ subscriptions[i].email = row.FromEmailAddress
          /\ subscriptions[i].status = "active"
          /\ subscriptions[i].length = 2
          /\ subscriptions[k].email = row.FromEmailAddress
          /\ subscriptions[k].status = "active"
          /\ subscriptions[k].length = 1
          /\ subscriptions[k].start = date

====
